---------------------------- MODULE Spec2Model ----------------------------
(***************************************************************************)
(* Model of std/algebra/fields_bls12377/e2.go: the in-circuit quadratic    *)
(* extension E2 = Fp[u]/(u^2 - uSquare) and its hinted inversion/division. *)
(*                                                                         *)
(* A circuit variable is modelled by the value it takes under the witness  *)
(* of one run of the solver; the builder is modelled by the ordered log of *)
(* the calls made on it (calls) and by the equality constraints registered *)
(* on it (asserts), each kept as the pair of values of its two sides.      *)
(* One behaviour is one gadget call on a fresh builder.                    *)
(***************************************************************************)
EXTENDS Integers, Sequences, FiniteSets, TLC

VARIABLES
    pc,       \* position in the gadget call: idle, hinted, verified, done, panic
    op,       \* the gadget method called
    aliased,  \* the receiver is the element the first operand was copied from
    e1, e2,   \* the operands (Go passes E2 by value)
    e,        \* the receiver *e
    e3,       \* local e3 of Inverse / DivUnchecked
    res,      \* the two hinted variables returned by api.NewHint
    err,      \* the error returned by api.NewHint
    ret,      \* the call has returned its receiver
    calls,    \* builder calls, in order
    asserts,  \* equality constraints registered by api.AssertIsEqual
    uSquare   \* ext.uSquare, the configured non-residue

vars == <<pc, op, aliased, e1, e2, e, e3, res, err, ret, calls, asserts, uSquare>>

-----------------------------------------------------------------------------
(* The base field.  P stands for the modulus of frontend.Variable          *)
(* arithmetic (bw6-761/fr, equal to the bls12-377 base field); it is the   *)
(* smallest prime for which -5 is a quadratic non-residue, so that E2 is a *)
(* field as it is for the real modulus.                                    *)
P == 11

\* Forged-witness runs of DivUnchecked draw the coordinates of the
\* numerator from 0..MaxNumerator (the divisor and the forged quotient
\* range over the whole field).
MaxNumerator == 2

Fp == 0 .. (P - 1)

E2 == [A0 : Fp, A1 : Fp]

Elt(a0, a1) == [A0 |-> a0, A1 |-> a1]

Numerators == [A0 : 0 .. MaxNumerator, A1 : 0 .. MaxNumerator]

\* frontend.API arithmetic on base-field variables
apiAdd(a, b) == (a + b) % P

apiSub(a, b) == (a + P - b) % P

apiMul(a, b) == (a * b) % P

\* ext.uSquare of the bls12-377 tower: u^2 = -5
extUSquare == P - 5

-----------------------------------------------------------------------------
(* Builder call log                                                        *)
Call(fn, nin, nout) == [fn |-> fn, nin |-> nin, nout |-> nout]

cAdd == Call("Add", 2, 1)

cSub == Call("Sub", 2, 1)

cMul == Call("Mul", 2, 1)

cAssertIsEqual == Call("AssertIsEqual", 2, 0)

cNewHint(nin, nout) == Call("NewHint", nin, nout)

-----------------------------------------------------------------------------
(* Constructors                                                            *)
SetZero == Elt(0, 0)

SetOne == Elt(1, 0)

assign(s) == Elt(s[1], s[2])

-----------------------------------------------------------------------------
\* Mul with bd left out of the sum taken from u
MulDropsBd(x, y) ==
    LET l1  == apiAdd(x.A0, x.A1)
        l2  == apiAdd(y.A0, y.A1)
        u   == apiMul(l1, l2)
        ac  == apiMul(x.A0, y.A0)
        bd  == apiMul(x.A1, y.A1)
        l41 == apiMul(bd, uSquare)
    IN  Elt(apiAdd(ac, l41), apiSub(u, ac))

(* E2.Mul: the value it stores in the receiver and the builder calls it    *)
(* makes, in order.                                                        *)
Mul(x, y) ==
    LET l1  == apiAdd(x.A0, x.A1)
        l2  == apiAdd(y.A0, y.A1)
        u   == apiMul(l1, l2)
        ac  == apiMul(x.A0, y.A0)
        bd  == apiMul(x.A1, y.A1)
        l31 == apiAdd(ac, bd)
        l41 == apiMul(bd, uSquare)
    IN  Elt(apiAdd(ac, l41), apiSub(u, l31))

MulCalls == <<cAdd, cAdd, cMul, cMul, cMul, cAdd, cSub, cMul, cAdd>>

\* Square without the second doubling of x0*x1
SquareSingleDoubling(x) ==
    LET c0a == apiAdd(x.A0, x.A1)
        c2a == apiMul(x.A1, uSquare)
        c2b == apiAdd(c2a, x.A0)
        c0b == apiMul(c0a, c2b)
        c2c == apiMul(x.A0, x.A1)
        c2d == apiAdd(c2c, c2c)
    IN  Elt(apiAdd(c0b, c2d), c2d)

\* Square by the textbook identity c0 = (x0+x1)(x0+b*x1) - x0*x1 - b*x0*x1
SquareTextbook(x) ==
    LET c0a == apiAdd(x.A0, x.A1)
        c2a == apiMul(x.A1, uSquare)
        c2b == apiAdd(c2a, x.A0)
        c0b == apiMul(c0a, c2b)
        c2c == apiMul(x.A0, x.A1)
        c2d == apiAdd(c2c, c2c)
    IN  Elt(apiSub(apiSub(c0b, c2c), apiMul(c2c, uSquare)), c2d)

(* E2.Square                                                               *)
Square(x) ==
    LET c0a == apiAdd(x.A0, x.A1)
        c2a == apiMul(x.A1, uSquare)
        c2b == apiAdd(c2a, x.A0)
        c0b == apiMul(c0a, c2b)
        c2c == apiMul(x.A0, x.A1)
        c2d == apiAdd(c2c, c2c)
        c2e == apiAdd(c2d, c2d)
    IN  Elt(apiAdd(c0b, c2e), c2d)

SquareCalls == <<cAdd, cMul, cAdd, cMul, cMul, cAdd, cAdd, cAdd>>

\* MulByNonResidue reading A0 back after it has been overwritten
MulByNonResidueClobbered(x1) ==
    LET a0 == apiMul(x1.A1, uSquare)
    IN  Elt(a0, a0)

(* E2.MulByNonResidue                                                      *)
MulByNonResidue(x1) ==
    LET x == x1.A0
    IN  Elt(apiMul(x1.A1, uSquare), x)

MulByNonResidueCalls == <<cMul>>

\* MustBeEqual constraining the first coordinate only
MustBeEqualFirstOnly(x, other) == << <<x.A0, other.A0>> >>

(* E2.MustBeEqual: the two constraints it registers                        *)
MustBeEqual(x, other) == << <<x.A0, other.A0>>, <<x.A1, other.A1>> >>

MustBeEqualCalls == <<cAssertIsEqual, cAssertIsEqual>>

-----------------------------------------------------------------------------
(* The out-of-circuit library the hints compute with (gnark-crypto         *)
(* bls12377.E2 over fp, whose non-residue is the fixed -5).                *)
RECURSIVE fpExp(_, _)
fpExp(a, n) == IF n = 0 THEN 1 ELSE (a * fpExp(a, n - 1)) % P

\* fp.Element.Inverse: a^-1, and 0 for 0
fpInverse(a) == fpExp(a, P - 2)

fpNeg(a) == (P - a) % P

\* bls12377.E2.Inverse
libInverse(x) ==
    LET t0  == (x.A0 * x.A0) % P
        t1  == (x.A1 * x.A1) % P
        tmp == (5 * t1) % P
        n   == (t0 + tmp) % P
        inv == fpInverse(n)
    IN  Elt((x.A0 * inv) % P, fpNeg((x.A1 * inv) % P))

\* bls12377.E2.Mul
libMul(x, y) ==
    LET a == (((x.A0 + x.A1) % P) * ((y.A0 + y.A1) % P)) % P
        b == (x.A0 * y.A0) % P
        c == (x.A1 * y.A1) % P
    IN  Elt((b + P - ((5 * c) % P)) % P, (a + 2 * P - b - c) % P)

(* InverseE2Hint: res for inputs (x.A0, x.A1)                              *)
InverseE2Hint(inputs) ==
    LET a == Elt(inputs[1], inputs[2])
        c == libInverse(a)
    IN  <<c.A0, c.A1>>

\* DivE2Hint inverting the numerator instead of the divisor
DivE2HintSwapped(inputs) ==
    LET a  == Elt(inputs[1], inputs[2])
        b  == Elt(inputs[3], inputs[4])
        c  == libMul(libInverse(a), b)
    IN  <<c.A0, c.A1>>

(* DivE2Hint: res for inputs (a.A0, a.A1, b.A0, b.A1)                      *)
DivE2Hint(inputs) ==
    LET a  == Elt(inputs[1], inputs[2])
        b  == Elt(inputs[3], inputs[4])
        c  == libMul(libInverse(b), a)
    IN  <<c.A0, c.A1>>

-----------------------------------------------------------------------------
(* State after construction: a fresh builder, nothing called yet.          *)
InitCommon ==
    /\ pc = "idle"
    /\ op = "none"
    /\ aliased = FALSE
    /\ e1 = SetZero
    /\ e2 = SetZero
    /\ e = SetZero
    /\ e3 = SetZero
    /\ res = <<0, 0>>
    /\ err = FALSE
    /\ ret = FALSE
    /\ calls = <<>>
    /\ asserts = <<>>

Init == InitCommon /\ uSquare = extUSquare

\* any value of the configuration constant
InitAnyBeta == InitCommon /\ uSquare \in Fp

-----------------------------------------------------------------------------
(* Gadget calls without hints: one action each.  The operands are any     *)
(* elements.                                                               *)
CallMul ==
    /\ pc = "idle"
    /\ \E x \in E2, y \in E2 :
        /\ e1' = x
        /\ e2' = y
        /\ e' = Mul(x, y)
    /\ op' = "Mul"
    /\ calls' = calls \o MulCalls
    /\ pc' = "done"
    /\ ret' = TRUE
    /\ UNCHANGED <<aliased, e3, res, err, asserts, uSquare>>

CallSquare ==
    /\ pc = "idle"
    /\ \E x \in E2 :
        /\ e1' = x
        /\ e' = Square(x)
    /\ op' = "Square"
    /\ calls' = calls \o SquareCalls
    /\ pc' = "done"
    /\ ret' = TRUE
    /\ UNCHANGED <<aliased, e2, e3, res, err, asserts, uSquare>>

\* al: the call is x.MulByNonResidue(api, x); the operand is a copy of the
\* receiver, which the call then overwrites
CallMulByNonResidue ==
    /\ pc = "idle"
    /\ \E x \in E2, al \in BOOLEAN :
        /\ aliased' = al
        /\ e1' = x
        /\ e' = MulByNonResidue(x)
    /\ op' = "MulByNonResidue"
    /\ calls' = calls \o MulByNonResidueCalls
    /\ pc' = "done"
    /\ ret' = TRUE
    /\ UNCHANGED <<e2, e3, res, err, asserts, uSquare>>

-----------------------------------------------------------------------------
(* E2.Inverse, in the order of its statements.                             *)

\* the hint request with err ignored
InverseNewHintIgnoresErr(x, ok, w) ==
    /\ pc = "idle"
    /\ op' = "Inverse"
    /\ e1' = x
    /\ calls' = Append(calls, cNewHint(2, 2))
    /\ res' = IF ok THEN w ELSE <<0, 0>>
    /\ err' = ~ok
    /\ pc' = "hinted"
    /\ UNCHANGED <<aliased, e2, e, e3, ret, asserts, uSquare>>

\* res, err := api.NewHint(InverseE2Hint, 2, e1.A0, e1.A1); panic(err).
\* ok: the builder accepts the request.  w: the values the hinted
\* variables take in the witness.
InverseNewHint(x, ok, w) ==
    /\ pc = "idle"
    /\ op' = "Inverse"
    /\ e1' = x
    /\ calls' = Append(calls, cNewHint(2, 2))
    /\ \/ /\ ok
          /\ res' = w
          /\ err' = FALSE
          /\ pc' = "hinted"
       \/ /\ ~ok
          /\ err' = TRUE
          /\ pc' = "panic"
          /\ UNCHANGED res
    /\ UNCHANGED <<aliased, e2, e, e3, ret, asserts, uSquare>>

\* the check without the multiplication by e1
InverseVerifySkipsMul ==
    /\ pc = "hinted"
    /\ op = "Inverse"
    /\ e3' = assign(res)
    /\ asserts' = asserts \o MustBeEqual(assign(res), SetOne)
    /\ calls' = calls \o MustBeEqualCalls
    /\ pc' = "verified"
    /\ UNCHANGED <<op, aliased, e1, e2, e, res, err, ret, uSquare>>

\* e3.assign(res[:2]); one.SetOne(); e3.Mul(api, e3, e1); e3.MustBeEqual(api, one)
InverseVerify ==
    /\ pc = "hinted"
    /\ op = "Inverse"
    /\ LET one == SetOne
           m   == Mul(assign(res), e1)
       IN  /\ e3' = m
           /\ asserts' = asserts \o MustBeEqual(m, one)
    /\ calls' = calls \o MulCalls \o MustBeEqualCalls
    /\ pc' = "verified"
    /\ UNCHANGED <<op, aliased, e1, e2, e, res, err, ret, uSquare>>

\* returning the checked product e3 instead of the hinted pair
InverseReturnsProduct ==
    /\ pc = "verified"
    /\ op = "Inverse"
    /\ e' = e3
    /\ ret' = TRUE
    /\ pc' = "done"
    /\ UNCHANGED <<op, aliased, e1, e2, e3, res, err, calls, asserts, uSquare>>

\* e.assign(res[:2]); return e
InverseReturn ==
    /\ pc = "verified"
    /\ op = "Inverse"
    /\ e' = assign(res)
    /\ ret' = TRUE
    /\ pc' = "done"
    /\ UNCHANGED <<op, aliased, e1, e2, e3, res, err, calls, asserts, uSquare>>

-----------------------------------------------------------------------------
(* E2.DivUnchecked, in the order of its statements.                        *)

\* the hinted pair stored in the receiver as soon as it is obtained
DivUncheckedStoresEarly(a, b, ok, w) ==
    /\ pc = "idle"
    /\ op' = "DivUnchecked"
    /\ e1' = a
    /\ e2' = b
    /\ calls' = Append(calls, cNewHint(4, 2))
    /\ \/ /\ ok
          /\ res' = w
          /\ e' = assign(w)
          /\ err' = FALSE
          /\ pc' = "hinted"
       \/ /\ ~ok
          /\ err' = TRUE
          /\ pc' = "panic"
          /\ UNCHANGED <<res, e>>
    /\ UNCHANGED <<aliased, e3, ret, asserts, uSquare>>

\* res, err := api.NewHint(DivE2Hint, 2, e1.A0, e1.A1, e2.A0, e2.A1); panic(err)
DivUncheckedNewHint(a, b, ok, w) ==
    /\ pc = "idle"
    /\ op' = "DivUnchecked"
    /\ e1' = a
    /\ e2' = b
    /\ calls' = Append(calls, cNewHint(4, 2))
    /\ \/ /\ ok
          /\ res' = w
          /\ err' = FALSE
          /\ pc' = "hinted"
       \/ /\ ~ok
          /\ err' = TRUE
          /\ pc' = "panic"
          /\ UNCHANGED res
    /\ UNCHANGED <<aliased, e, e3, ret, asserts, uSquare>>

\* e3.assign(res[:2]); e3.Mul(api, e3, e2); e3.MustBeEqual(api, e1)
DivUncheckedVerify ==
    /\ pc = "hinted"
    /\ op = "DivUnchecked"
    /\ LET m == Mul(assign(res), e2)
       IN  /\ e3' = m
           /\ asserts' = asserts \o MustBeEqual(m, e1)
    /\ calls' = calls \o MulCalls \o MustBeEqualCalls
    /\ pc' = "verified"
    /\ UNCHANGED <<op, aliased, e1, e2, e, res, err, ret, uSquare>>

\* e.assign(res[:2]); return e
DivUncheckedReturn ==
    /\ pc = "verified"
    /\ op = "DivUnchecked"
    /\ e' = assign(res)
    /\ ret' = TRUE
    /\ pc' = "done"
    /\ UNCHANGED <<op, aliased, e1, e2, e3, res, err, calls, asserts, uSquare>>

-----------------------------------------------------------------------------
(* Witness solving: the solver runs the registered hint (honest prover),   *)
(* or the prover supplies values of its own for the hinted variables.      *)
InverseHonest ==
    /\ pc = "idle"
    /\ \E x \in E2, ok \in BOOLEAN :
        InverseNewHint(x, ok, InverseE2Hint(<<x.A0, x.A1>>))

InverseForged ==
    /\ pc = "idle"
    /\ \E x \in E2, w \in Fp \X Fp : InverseNewHint(x, TRUE, w)

DivUncheckedHonest ==
    /\ pc = "idle"
    /\ \E a \in E2, b \in E2, ok \in BOOLEAN :
        DivUncheckedNewHint(a, b, ok, DivE2Hint(<<a.A0, a.A1, b.A0, b.A1>>))

DivUncheckedForged ==
    /\ pc = "idle"
    /\ \E a \in Numerators, b \in E2, w \in Fp \X Fp :
        DivUncheckedNewHint(a, b, TRUE, w)

NextArith ==
    \/ CallMul
    \/ CallSquare
    \/ CallMulByNonResidue

Next ==
    \/ NextArith
    \/ InverseHonest
    \/ InverseForged
    \/ InverseVerify
    \/ InverseReturn
    \/ DivUncheckedHonest
    \/ DivUncheckedForged
    \/ DivUncheckedVerify
    \/ DivUncheckedReturn

Spec == Init /\ [][Next]_vars

\* the arithmetic gadgets under every value of the non-residue
SpecAnyBeta == InitAnyBeta /\ [][NextArith]_vars

-----------------------------------------------------------------------------
(* Vocabulary of the properties.                                           *)

\* the product of x and y in Fp[u]/(u^2 - uSquare), by the schoolbook rule
Schoolbook(x, y) ==
    Elt((x.A0 * y.A0 + uSquare * x.A1 * y.A1) % P,
        (x.A0 * y.A1 + x.A1 * y.A0) % P)

\* every registered equality constraint holds under the witness
AllSatisfied == \A i \in 1 .. Len(asserts) : asserts[i][1] = asserts[i][2]

HintedOps == {"Inverse", "DivUnchecked"}

\* the constraints of a hinted call have been emitted
Checked == op \in HintedOps /\ pc \in {"verified", "done"}

\* the witness of the hinted variables is the registered oracle's output
OracleWitness ==
    \/ op = "Inverse" /\ res = InverseE2Hint(<<e1.A0, e1.A1>>)
    \/ op = "DivUnchecked" /\ res = DivE2Hint(<<e1.A0, e1.A1, e2.A0, e2.A1>>)

\* hinted * Divisor == Target is the identity a hinted call verifies
Divisor == IF op = "Inverse" THEN e1 ELSE e2

Target == IF op = "Inverse" THEN SetOne ELSE e1

\* the builder calls of a complete hinted call
FullLog(o) ==
    <<cNewHint(IF o = "Inverse" THEN 2 ELSE 4, 2)>> \o MulCalls \o MustBeEqualCalls

IsPrefix(s, t) == Len(s) <= Len(t) /\ s = SubSeq(t, 1, Len(s))

-----------------------------------------------------------------------------
(* C1: with the configured non-residue, Square(x) equals Mul(x, x) in both *)
(* coordinates, for every element x.                                       *)
C1_SquareIsMul ==
    (op = "Square" /\ pc = "done") => e = Mul(e1, e1)

C1_Witness ==
    op = "Square" /\ pc = "done" /\ e1 = Elt(2, 3) /\ e = Mul(e1, e1)

(* C2: for every x, y and every non-residue value, Mul(x, y) equals the    *)
(* schoolbook product (x0*y0 + b*x1*y1, x0*y1 + x1*y0) modulo the prime.   *)
C2_MulIsSchoolbook ==
    (op = "Mul" /\ pc = "done") => e = Schoolbook(e1, e2)

C2_Witness ==
    /\ op = "Mul" /\ pc = "done"
    /\ e1 = Elt(2, 3) /\ e2 = Elt(5, 7)
    /\ e = Elt((2 * 5 + uSquare * 3 * 7) % P, (2 * 7 + 3 * 5) % P)

(* C3: for nonzero x and the oracle's witness, both constraints emitted by *)
(* Inverse(x) hold, and the returned element is the hinted pair and        *)
(* satisfies Mul(Inverse(x), x) = (1, 0).                                  *)
C3_HonestInverse ==
    (op = "Inverse" /\ Checked /\ OracleWitness /\ e1 # SetZero) =>
        /\ Len(asserts) = 2
        /\ AllSatisfied
        /\ pc = "done" => (ret /\ e = assign(res) /\ Mul(e, e1) = SetOne)

C3_Witness ==
    /\ op = "Inverse" /\ pc = "done" /\ OracleWitness
    /\ e1 = Elt(2, 3) /\ ret /\ AllSatisfied /\ Mul(e, e1) = SetOne

(* C4: for every a, nonzero b and the oracle's witness, both constraints   *)
(* emitted by DivUnchecked(a, b) hold, and the returned q satisfies        *)
(* Mul(q, b) = a.                                                          *)
C4_HonestDiv ==
    (op = "DivUnchecked" /\ Checked /\ OracleWitness /\ e2 # SetZero) =>
        /\ Len(asserts) = 2
        /\ AllSatisfied
        /\ pc = "done" => (ret /\ e = assign(res) /\ Mul(e, e2) = e1)

C4_Witness ==
    /\ op = "DivUnchecked" /\ pc = "done" /\ OracleWitness
    /\ e1 = Elt(2, 3) /\ e2 = Elt(5, 7) /\ ret /\ AllSatisfied /\ Mul(e, e2) = e1

(* C5: hint soundness.  Any witness of the hinted variables that does not  *)
(* satisfy hinted * x = 1 (resp. hinted * b = a) violates an emitted       *)
(* constraint; so for a nonzero divisor the only accepted returned element *)
(* is the one element z with z * x = 1 (resp. z * b = a).                  *)
C5_HintSound ==
    Checked =>
        /\ Schoolbook(assign(res), Divisor) # Target => ~AllSatisfied
        /\ (pc = "done" /\ AllSatisfied /\ Divisor # SetZero) =>
              /\ Schoolbook(e, Divisor) = Target
              /\ \A z \in E2 : Schoolbook(z, Divisor) = Target => z = e

C5_Witness ==
    /\ op = "DivUnchecked" /\ pc = "done" /\ ~OracleWitness
    /\ e1 = Elt(1, 2) /\ e2 = Elt(5, 7) /\ ~AllSatisfied

(* C6: when the hint request of Inverse or DivUnchecked fails, the call    *)
(* aborts at that request: nothing but the request reaches the builder, no *)
(* constraint is registered, the receiver is not written, nothing is       *)
(* returned, and no later step of the call runs.                           *)
C6_AbortOnHintFailure ==
    [][ /\ err' => /\ pc' = "panic"
                   /\ calls' = Append(calls, cNewHint(IF op' = "Inverse" THEN 2 ELSE 4, 2))
                   /\ asserts' = asserts
                   /\ asserts' = <<>>
                   /\ e' = e
                   /\ ~ret'
        /\ ~err
        /\ pc # "panic" ]_vars

C6_Witness ==
    /\ err /\ pc = "panic" /\ op = "DivUnchecked"
    /\ calls = <<cNewHint(4, 2)>> /\ asserts = <<>> /\ ~ret

(* C7: for every x and non-residue value, MulByNonResidue(x) is            *)
(* (x1 * b, x0) and equals Mul(x, (0, 1)), also when the receiver is the   *)
(* operand.                                                                *)
C7_MulByNonResidue ==
    (op = "MulByNonResidue" /\ pc = "done") =>
        /\ e = Elt((e1.A1 * uSquare) % P, e1.A0)
        /\ e = Mul(e1, Elt(0, 1))

C7_Witness ==
    /\ op = "MulByNonResidue" /\ pc = "done" /\ aliased
    /\ e1 = Elt(2, 3) /\ e = Elt((3 * uSquare) % P, 2)

(* C8: a hinted call makes its builder calls in the order: one hint        *)
(* request with 2 outputs (2 inputs for Inverse, 4 for DivUnchecked), the  *)
(* calls of one extension multiplication, two assert-equal calls; the      *)
(* receiver is written and returned only after both assert-equal calls.    *)
C8_CallOrder ==
    [][ op' \in HintedOps =>
          /\ IsPrefix(calls', FullLog(op'))
          /\ ret' => (calls' = FullLog(op') /\ Len(asserts') = 2)
          /\ (e' # e \/ ret' # ret) =>
                /\ calls = FullLog(op')
                /\ Len(asserts) = 2
                /\ calls' = calls
                /\ asserts' = asserts
                /\ e' = assign(res)
                /\ ret' ]_vars

C8_Witness ==
    /\ op = "DivUnchecked" /\ pc = "done" /\ ret
    /\ calls = FullLog("DivUnchecked") /\ Len(asserts) = 2
    /\ e = assign(res) /\ e # SetZero

(* C9: zero divisors.  The constraints of Inverse((0,0)) fail under every  *)
(* witness, those of DivUnchecked(a, (0,0)) fail under every witness when  *)
(* a is nonzero, and those of DivUnchecked((0,0), (0,0)) hold under every  *)
(* witness, which leaves the returned element unconstrained.               *)
C9_ZeroDivisor ==
    (Checked /\ Divisor = SetZero) =>
        /\ op = "Inverse" => ~AllSatisfied
        /\ (op = "DivUnchecked" /\ e1 # SetZero) => ~AllSatisfied
        /\ (op = "DivUnchecked" /\ e1 = SetZero) =>
              /\ AllSatisfied
              /\ Len(asserts) = 2
              /\ pc = "done" => e = assign(res)

C9_Witness ==
    /\ op = "DivUnchecked" /\ pc = "done" /\ e1 = SetZero /\ e2 = SetZero
    /\ e = Elt(3, 7) /\ AllSatisfied /\ ~OracleWitness

(* C10: Square(x) is c1 = 2*x0*x1, c0 = (x0+x1)*(x0+b*x1) + 4*x0*x1; its   *)
(* c0 exceeds that of Mul(x, x) by (b+5)*x0*x1, so Square = Mul(x, x) for  *)
(* every x exactly when b = -5, and for any other b it fails at every x    *)
(* with x0*x1 # 0.                                                         *)
C10_SquareFormula ==
    (op = "Square" /\ pc = "done") =>
        LET x0 == e1.A0
            x1 == e1.A1
            b  == uSquare
        IN  /\ e.A1 = (2 * x0 * x1) % P
            /\ e.A0 = ((x0 + x1) * (x0 + b * x1) + 4 * x0 * x1) % P
            /\ e.A0 = (Mul(e1, e1).A0 + (b + 5) * x0 * x1) % P
            /\ Mul(e1, e1).A0 = (x0 * x0 + b * x1 * x1) % P
            /\ (e = Mul(e1, e1)) <=> (b = P - 5 \/ (x0 * x1) % P = 0)
            /\ (\A x \in E2 : Square(x) = Mul(x, x)) <=> (b = P - 5)

C10_Witness ==
    /\ op = "Square" /\ pc = "done" /\ uSquare = 2
    /\ e1 = Elt(2, 3) /\ e # Mul(e1, e1)

=============================================================================
